---- MODULE Spec2Model ----
(***************************************************************************)
(* realmkbot: the backfill engine (App::populate), the retrying invoker    *)
(* (util::invoke) and the gap iterator (util::SkippingIter), with the      *)
(* startup chain of main that leads into them; the store (db.rs) and the   *)
(* live loop (App::run, App::handle_update).                               *)
(***************************************************************************)
EXTENDS Integers, Sequences, FiniteSets, TLC

VARIABLES
    \* ---- the application (main.rs) ----
    pc,                     \* position of the single task inside main
    skip_populate,          \* Config.skip_populate
    force_repopulate,       \* Config.force_repopulate
    source,                 \* message ids that exist in the remote chat
    db,                     \* table `message`: id -> [text, is_forwarded, raw]
    db0,                    \* the table as it was when the process started
    existing_ids,           \* populate: the snapshot handed to SkippingIter
    curr,                   \* populate: SkippingIter.curr
    msg_ids,                \* populate: the batch drawn by take(100)
    idx,                    \* populate: position of the `for msg in res` loop
    consecutive_empty_msg,  \* populate: consecutive_empty_msg
    added,                  \* populate: added
    sleeping,               \* invoke: <<secs>> while the call in flight sleeps
    err,                    \* the failure main ended with (kind "none": none)
    last_res,               \* the answer of the latest remote or storage call
    requested,              \* ids asked of get_messages_by_id so far
    classified,             \* ids whose result the for loop has classified
    upserted,               \* ids populate has upserted
    batches,                \* number of batches drawn from the iterator
    \* ---- invoke on its own (util.rs) ----
    ipc,                    \* position inside invoke
    script,                 \* the answers the operation gives, in order
    rl_forever,             \* the operation answers RateLimited for ever
    calls,                  \* number of times the operation was invoked
    sleeps,                 \* the durations invoke slept, in order
    res,                    \* `res`, the answer being matched
    ret,                    \* what invoke returned
    \* ---- SkippingIter on its own (util.rs) ----
    it_inner,               \* SkippingIter.inner
    it_curr,                \* SkippingIter.curr
    it_out,                 \* the values next() has returned, in order
    \* ---- the live loop (App::run) ----
    users,                  \* table `user`: user_id -> count
    ready,                  \* pool: the handlers queued to be polled, in order
    parked,                 \* pool: the handlers awaiting their inline reply
    sig,                    \* a ctrl-c has arrived and was not yet observed
    signals,                \* number of ctrl-c sent so far
    dequeued,               \* number of updates next_update has yielded
    quota,                  \* number of updates the stream holds in this run
    finished,               \* the handlers that completed: [n, upd, out, logged]
    chosen,                 \* user_id -> inline results chosen and handled
    sfail,                  \* a storage call of a handler has failed
    turn,                   \* parity of the inner loop's turns on an empty pool
    forced,                 \* number of ctrl-c sent while the inner loop runs
    \* ---- the store on its own (db.rs) ----
    op                      \* the latest operation: [name, args, out, stmts, pre]

appVars == <<pc, skip_populate, force_repopulate, source, db, db0, existing_ids,
             curr, msg_ids, idx, consecutive_empty_msg, added, sleeping, err,
             last_res, requested, classified, upserted, batches>>
invVars == <<ipc, script, rl_forever, calls, sleeps, res, ret>>
itVars == <<it_inner, it_curr, it_out>>
liveVars == <<users, ready, parked, sig, signals, dequeued, quota, finished,
              chosen, sfail, turn, forced>>
opVars == <<op>>
vars == <<appVars, invVars, itVars, liveVars, opVars>>

----------------------------------------------------------------------------
(* Program constants *)

BATCH_SIZE == 100
THRESHOLD == 10
FLOOD_CODE == 420
DEFAULT_WAIT == 30

(* Bounds of the model *)

GapSlack == 1
MaxSingles == 2
MaxRL == 3
MaxId == 7
MaxYield == 8
MaxIdList == 2
MaxLimit == 2
MaxCount == 5
MaxUpdates == 2
MaxSignals == 2

----------------------------------------------------------------------------
(* Answers of remote and storage calls: Result<R, InvocationError>.  An    *)
(* Option is a sequence of length 0 or 1.                                  *)

OkRes(v) == [kind |-> "ok", code |-> 0, value |-> <<v>>]
RpcErr(c, v) == [kind |-> "rpc", code |-> c, value |-> v]
IoErr == [kind |-> "io", code |-> 0, value |-> <<>>]
StorageErr == [kind |-> "storage", code |-> 0, value |-> <<>>]
NotResolved == [kind |-> "eyre", code |-> 0, value |-> <<>>]
NoRes == [kind |-> "none", code |-> 0, value |-> <<>>]

Waits == {<<>>, <<0>>, <<7>>}
RateLimitedSet == {RpcErr(FLOOD_CODE, w) : w \in Waits}
OtherFailures == {RpcErr(400, <<>>), RpcErr(500, <<7>>), IoErr}
IsErr(r) == r.kind \in {"rpc", "io", "storage", "eyre"}
IsRateLimited(r) == r.kind = "rpc" /\ r.code = FLOOD_CODE

Min(a, b) == IF a < b THEN a ELSE b
Range(sq) == {sq[k] : k \in 1..Len(sq)}

----------------------------------------------------------------------------
(* util.rs: SkippingIter *)

\* SkippingIter::new
SkippingIterNew(inner) == [curr |-> 1, inner |-> inner]

\* a next() that steps over one member only
SkippingIterNextOnce(it) ==
    IF it.curr \in it.inner
    THEN [item |-> it.curr + 1, it |-> [it EXCEPT !.curr = it.curr + 2]]
    ELSE [item |-> it.curr, it |-> [it EXCEPT !.curr = it.curr + 1]]

\* Iterator::next: skip the members of inner, yield the first non-member
RECURSIVE SkippingIterNext(_)
SkippingIterNext(it) ==
    IF it.curr \in it.inner
    THEN SkippingIterNext([it EXCEPT !.curr = it.curr + 1])
    ELSE [item |-> it.curr, it |-> [it EXCEPT !.curr = it.curr + 1]]

\* iter.clone().take(n).collect(): the batch is drawn from a copy, the
\* iterator itself stays where it was
RECURSIVE TakeCopy(_, _)
TakeCopy(it, n) ==
    IF n = 0 THEN [ids |-> <<>>, it |-> it]
    ELSE IF n = 1
    THEN LET nx == SkippingIterNext(it) IN [ids |-> <<nx.item>>, it |-> nx.it]
    ELSE LET a == TakeCopy(it, n \div 2)
             b == TakeCopy(a.it, n - (n \div 2))
         IN  [ids |-> a.ids \o b.ids, it |-> b.it]

TakeCollectCopy(it, n) == [ids |-> TakeCopy(it, n).ids, it |-> it]

\* (&mut iter).take(n).collect::<Vec<_>>(): n calls of next, in order (the
\* calls are grouped in halves to keep the evaluation shallow)
RECURSIVE TakeCollect(_, _)
TakeCollect(it, n) ==
    IF n = 0 THEN [ids |-> <<>>, it |-> it]
    ELSE IF n = 1
    THEN LET nx == SkippingIterNext(it) IN [ids |-> <<nx.item>>, it |-> nx.it]
    ELSE LET a == TakeCollect(it, n \div 2)
             b == TakeCollect(a.it, n - (n \div 2))
         IN  [ids |-> a.ids \o b.ids, it |-> b.it]

----------------------------------------------------------------------------
(* util.rs: invoke *)

\* an invoke whose default wait is 0
InvokeMatchNoDefault(r) ==
    IF r.kind = "rpc" /\ r.code = FLOOD_CODE
    THEN [act |-> "sleep", secs |-> IF r.value = <<>> THEN 0 ELSE r.value[1]]
    ELSE [act |-> "return", secs |-> 0]

\* an invoke that takes every RPC failure carrying a value for a flood wait
InvokeMatchAnyRpc(r) ==
    IF r.kind = "rpc" /\ (r.code = FLOOD_CODE \/ r.value # <<>>)
    THEN [act |-> "sleep",
          secs |-> IF r.value = <<>> THEN DEFAULT_WAIT ELSE r.value[1]]
    ELSE [act |-> "return", secs |-> 0]

\* an invoke that gives up after three attempts
InvokeMatchMaxAttempts(r) ==
    IF r.kind = "rpc" /\ r.code = FLOOD_CODE /\ calls < 3
    THEN [act |-> "sleep",
          secs |-> IF r.value = <<>> THEN DEFAULT_WAIT ELSE r.value[1]]
    ELSE [act |-> "return", secs |-> 0]

\* the match on `res`: sleep and loop again, or return `res` to the caller
InvokeMatch(r) ==
    IF r.kind = "rpc" /\ r.code = FLOOD_CODE
    THEN [act |-> "sleep",
          secs |-> IF r.value = <<>> THEN DEFAULT_WAIT ELSE r.value[1]]
    ELSE [act |-> "return", secs |-> 0]

----------------------------------------------------------------------------
(* db.rs *)

\* MessageRecord::from_raw: an empty text is stored as NULL
from_raw(msg) ==
    [id |-> msg.id,
     text |-> IF msg.text = "" THEN <<>> ELSE <<msg.text>>,
     is_forwarded |-> msg.fwd,
     raw |-> msg.raw]

\* an upsert written as INSERT OR IGNORE: a stored row is kept
upsert_ignore(d, rec) ==
    [i \in (DOMAIN d) \cup {rec.id} |->
        IF i = rec.id /\ i \notin DOMAIN d
        THEN [text |-> rec.text, is_forwarded |-> rec.is_forwarded, raw |-> rec.raw]
        ELSE d[i]]

\* Database::upsert_one: INSERT OR REPLACE keyed by id
upsert_one(d, rec) ==
    [i \in (DOMAIN d) \cup {rec.id} |->
        IF i = rec.id
        THEN [text |-> rec.text, is_forwarded |-> rec.is_forwarded, raw |-> rec.raw]
        ELSE d[i]]

\* Database::existing_ids: SELECT id FROM message
ExistingIds(d) == DOMAIN d

----------------------------------------------------------------------------
(* The remote chat *)

\* the message the remote chat holds under id i
RemoteMsg(i) ==
    [id |-> i, text |-> IF i % 3 = 0 THEN "" ELSE "mk", fwd |-> (i % 2 = 0), raw |-> 1]

\* get_messages_by_id: per requested id, the message or None, in input order
ResultAt(ids, k) == IF ids[k] \in source THEN <<RemoteMsg(ids[k])>> ELSE <<>>

\* a row written by an earlier run, since edited remotely
StaleRow == [text |-> <<"old">>, is_forwarded |-> FALSE, raw |-> 0]

\* The histories the model starts from: ids 1..p all present, then up to
\* MaxSingles single messages, each after a gap of missing ids.
Prefixes == {0, BATCH_SIZE - THRESHOLD - 1, BATCH_SIZE}
Gaps == {0} \cup ((THRESHOLD - GapSlack)..(THRESHOLD + GapSlack))
GapSeqs == UNION {[1..n -> Gaps] : n \in 0..MaxSingles}

RECURSIVE SinglePos(_, _, _)
SinglePos(p, gs, k) == IF k = 0 THEN p ELSE SinglePos(p, gs, k - 1) + gs[k] + 1

SourceOf(p, gs) == (1..p) \cup {SinglePos(p, gs, k) : k \in 1..Len(gs)}

\* The stores the model starts from: an earlier run mirrored the chat up to
\* one of these ids.
Cuts(p, gs) == {SinglePos(p, gs, k) : k \in 0..Len(gs)} \cup {0}

----------------------------------------------------------------------------
(* main.rs: the startup chain  init -> load_chat -> populated -> run *)

cfgVars == <<skip_populate, force_repopulate, source, db0>>
popVars == <<existing_ids, curr, msg_ids, idx, consecutive_empty_msg, added>>
obsVars == <<requested, classified, upserted, batches>>

RemoteAnswers == {OkRes(0)} \cup RateLimitedSet \cup OtherFailures

\* a remote call made through invoke, answered by r: sleep and stay at the
\* call on RateLimited, leave with `?` on another failure, go on otherwise
ViaInvoke(r, okpc, errpc) ==
    LET m == InvokeMatch(r)
    IN  /\ last_res' = r
        /\ IF m.act = "sleep"
           THEN sleeping' = <<m.secs>> /\ pc' = pc /\ err' = err
           ELSE IF IsErr(r)
                THEN sleeping' = sleeping /\ pc' = errpc /\ err' = r
                ELSE sleeping' = sleeping /\ pc' = okpc /\ err' = err

\* a remote call awaited directly: every failure leaves with `?`
Direct(r, okpc, errpc) ==
    /\ last_res' = r
    /\ sleeping' = sleeping
    /\ IF IsErr(r)
       THEN pc' = errpc /\ err' = r
       ELSE pc' = okpc /\ err' = err

\* a populated() that drops the failure of populate() and goes on to run()
PropagateDropped(r) == pc' = "run" /\ err' = err

\* the `?` of populate, populated and main: the failure ends the process
\* before run() is reached
Propagate(r) == pc' = "exit_err" /\ err' = r

\* tokio::time::sleep inside invoke has elapsed: the loop calls f() again
Wake ==
    /\ UNCHANGED <<invVars, itVars, liveVars, opVars>>
    /\ sleeping # <<>>
    /\ sleeping' = <<>>
    /\ UNCHANGED <<pc, db, err, last_res, cfgVars, popVars, obsVars>>

\* App::init up to the connection: Database::open fails with `?`
AppInit ==
    /\ UNCHANGED <<invVars, itVars, liveVars, opVars>>
    /\ pc = "init" /\ sleeping = <<>>
    /\ \E r \in {OkRes(0), StorageErr} : Direct(r, "sign_in", "exit_err")
    /\ UNCHANGED <<db, cfgVars, popVars, obsVars>>

\* invoke(|| client.bot_sign_in(..)).await.expect(..)
SignIn ==
    /\ UNCHANGED <<invVars, itVars, liveVars, opVars>>
    /\ pc = "sign_in" /\ sleeping = <<>>
    /\ \E r \in RemoteAnswers : ViaInvoke(r, "get_me", "panic")
    /\ UNCHANGED <<db, cfgVars, popVars, obsVars>>

\* invoke(|| client.get_me()).await?
GetMe ==
    /\ UNCHANGED <<invVars, itVars, liveVars, opVars>>
    /\ pc = "get_me" /\ sleeping = <<>>
    /\ \E r \in RemoteAnswers : ViaInvoke(r, "load_chat", "exit_err")
    /\ UNCHANGED <<db, cfgVars, popVars, obsVars>>

\* App::load_chat: client.resolve_username(..).await?.ok_or_else(..)?
LoadChat ==
    /\ UNCHANGED <<invVars, itVars, liveVars, opVars>>
    /\ pc = "load_chat" /\ sleeping = <<>>
    /\ \E r \in RemoteAnswers \cup {NotResolved} : Direct(r, "populate", "exit_err")
    /\ UNCHANGED <<db, cfgVars, popVars, obsVars>>

----------------------------------------------------------------------------
(* main.rs: App::populate *)

\* a populate that reads the stored ids whatever the mode
ExclusionSetIgnoreForce(force, d) == ExistingIds(d)

\* the exclusion set: empty under force_repopulate, else the stored ids
ExclusionSet(force, d) == IF force THEN {} ELSE ExistingIds(d)

\* a stopping test that is off by one
StopNowLate(ce) == ce > THRESHOLD + 1

\* `if consecutive_empty_msg > 10`
StopNow(ce) == ce > THRESHOLD

\* populate up to the loop: skip, or read the snapshot and build the iterator
PopulateStart ==
    /\ UNCHANGED <<invVars, itVars, liveVars, opVars>>
    /\ pc = "populate" /\ sleeping = <<>>
    /\ IF skip_populate
       THEN /\ pc' = "run"
            /\ UNCHANGED <<err, last_res, popVars>>
       ELSE \E r \in IF force_repopulate THEN {last_res} ELSE {OkRes(0), StorageErr} :
            /\ last_res' = r
            /\ IF ~force_repopulate /\ IsErr(r)
               THEN /\ Propagate(r)
                    /\ UNCHANGED popVars
               ELSE /\ pc' = "draw" /\ err' = err
                    /\ existing_ids' = ExclusionSet(force_repopulate, db)
                    /\ curr' = SkippingIterNew(existing_ids').curr
                    /\ consecutive_empty_msg' = 0
                    /\ added' = 0
                    /\ UNCHANGED <<msg_ids, idx>>
    /\ UNCHANGED <<db, sleeping, cfgVars, obsVars>>

\* (&mut iter).take(100).collect()
DrawBatch ==
    /\ UNCHANGED <<invVars, itVars, liveVars, opVars>>
    /\ pc = "draw" /\ sleeping = <<>>
    /\ LET t == TakeCollect([curr |-> curr, inner |-> existing_ids], BATCH_SIZE)
       IN  /\ msg_ids' = t.ids
           /\ curr' = t.it.curr
    /\ batches' = batches + 1
    /\ pc' = "fetch"
    /\ UNCHANGED <<db, sleeping, err, last_res, cfgVars, existing_ids, idx,
                   consecutive_empty_msg, added, requested, classified, upserted>>

\* invoke(|| client.get_messages_by_id(&chat, msg_ids)).await?
FetchBatch ==
    /\ UNCHANGED <<invVars, itVars, liveVars, opVars>>
    /\ pc = "fetch" /\ sleeping = <<>>
    /\ \E r \in RemoteAnswers :
         LET m == InvokeMatch(r)
         IN  /\ last_res' = r
             /\ IF m.act = "sleep"
                THEN sleeping' = <<m.secs>> /\ UNCHANGED <<pc, err>>
                ELSE IF IsErr(r)
                     THEN Propagate(r) /\ UNCHANGED sleeping
                     ELSE pc' = "classify" /\ UNCHANGED <<sleeping, err>>
    /\ requested' = requested \cup {msg_ids[k] : k \in 1..Len(msg_ids)}
    /\ idx' = 1
    /\ UNCHANGED <<db, cfgVars, existing_ids, curr, msg_ids, consecutive_empty_msg,
                   added, classified, upserted, batches>>

\* one turn of `for msg in res`, or its end
Classify ==
    /\ UNCHANGED <<invVars, itVars, liveVars, opVars>>
    /\ pc = "classify" /\ sleeping = <<>>
    /\ IF idx > Len(msg_ids)
       THEN /\ pc' = "draw"
            /\ UNCHANGED <<db, err, last_res, idx, consecutive_empty_msg, added,
                           classified, upserted>>
       ELSE IF StopNow(consecutive_empty_msg)
       THEN /\ pc' = "run"
            /\ UNCHANGED <<db, err, last_res, idx, consecutive_empty_msg, added,
                           classified, upserted>>
       ELSE IF ResultAt(msg_ids, idx) = <<>>
       THEN /\ consecutive_empty_msg' = consecutive_empty_msg + 1
            /\ idx' = idx + 1
            /\ classified' = classified \cup {msg_ids[idx]}
            /\ UNCHANGED <<pc, db, err, last_res, added, upserted>>
       ELSE \E r \in {OkRes(0), StorageErr} :
            /\ last_res' = r
            /\ consecutive_empty_msg' = 0
            /\ classified' = classified \cup {msg_ids[idx]}
            /\ IF IsErr(r)
               THEN /\ Propagate(r)
                    /\ UNCHANGED <<db, idx, added, upserted>>
               ELSE /\ db' = upsert_one(db, from_raw(ResultAt(msg_ids, idx)[1]))
                    /\ added' = added + 1
                    /\ idx' = idx + 1
                    /\ upserted' = upserted \cup {msg_ids[idx]}
                    /\ UNCHANGED <<pc, err>>
    /\ UNCHANGED <<sleeping, cfgVars, existing_ids, curr, msg_ids, requested, batches>>

NextApp ==
    \/ AppInit
    \/ SignIn
    \/ GetMe
    \/ LoadChat
    \/ PopulateStart
    \/ DrawBatch
    \/ FetchBatch
    \/ Classify
    \/ Wake

InitApp ==
    /\ pc = "init"
    /\ skip_populate \in BOOLEAN
    /\ force_repopulate \in BOOLEAN
    /\ \E p \in Prefixes, gs \in GapSeqs :
         /\ source = SourceOf(p, gs)
         /\ \E c \in Cuts(p, gs) :
              db0 = [i \in {j \in SourceOf(p, gs) : j <= c} |-> StaleRow]
    /\ db = db0
    /\ existing_ids = {}
    /\ curr = 1
    /\ msg_ids = <<>>
    /\ idx = 0
    /\ consecutive_empty_msg = 0
    /\ added = 0
    /\ sleeping = <<>>
    /\ err = NoRes
    /\ last_res = NoRes
    /\ requested = {}
    /\ classified = {}
    /\ upserted = {}
    /\ batches = 0

IdleInvoke ==
    /\ ipc = "idle" /\ script = <<>> /\ rl_forever = FALSE /\ calls = 0
    /\ sleeps = <<>> /\ res = NoRes /\ ret = NoRes

IdleIter == it_inner = {} /\ it_curr = 0 /\ it_out = <<>>

NoOp == [name |-> "none", args |-> <<>>, out |-> <<>>, stmts |-> 0, pre |-> <<>>]

IdleStore == op = NoOp

IdleLive ==
    /\ users = <<>> /\ ready = <<>> /\ parked = <<>> /\ sig = FALSE /\ signals = 0
    /\ dequeued = 0 /\ quota = 0 /\ finished = <<>> /\ chosen = <<>> /\ sfail = FALSE
    /\ turn = 0 /\ forced = 0

Init == InitApp /\ IdleInvoke /\ IdleIter /\ IdleLive /\ IdleStore

Next == NextApp

Spec == Init /\ [][Next]_vars

----------------------------------------------------------------------------
(* Properties of backfill, checked under Spec *)

RowOf(m) == [text |-> m.text, is_forwarded |-> m.is_forwarded, raw |-> m.raw]
InPopulate == pc \in {"populate", "draw", "fetch", "classify"}

\* C1: against a source holding exactly the ids 1..100, backfill started with
\* an empty exclusion set never classifies the result of an id above 111, never
\* draws a third batch, and when it completes it has upserted exactly the 100
\* records (added = 100).
C1_BackfillTermination ==
    (source = 1..100 /\ ~skip_populate /\ (force_repopulate \/ DOMAIN db0 = {}))
    => /\ classified \subseteq 1..111
       /\ batches <= 2
       /\ added <= 100
       /\ (pc = "run" => added = 100 /\ upserted = 1..100 /\ err = NoRes)

C1_Witness ==
    /\ source = 1..100 /\ ~skip_populate /\ DOMAIN db0 = {}
    /\ pc = "run" /\ added = 100 /\ 111 \in classified

\* C2: once consecutive_empty exceeds 10, backfill classifies no further
\* result and draws and fetches no further batch.
C2_StopsAtOnce ==
    [][(InPopulate /\ batches >= 1 /\ consecutive_empty_msg > 10)
         => (classified' = classified /\ batches' = batches /\ requested' = requested)]_vars

\* no run of more than 10 consecutive ids is missing below the highest id
Dense(src) ==
    \A a \in src : \A b \in 1..a :
        (b + 10 < a) => \E j \in b..(b + 10) : j \in src

\* C3: when backfill completes normally (mode normal or force) against a
\* source without a run of more than 10 missing ids below its highest id,
\* every message of the source is in the store.
C3_Parity ==
    (pc = "run" /\ ~skip_populate /\ Dense(source)) => source \subseteq DOMAIN db

\* C4: a non-rate-limit failure of the batch fetch, of the snapshot read or of
\* an upsert ends backfill in that very step with that failure and without a
\* write; nothing happens after it (no fetch, no write, no live sync); the
\* records upserted before it are still in the store.
C4_FailureFatal ==
    [][/\ (InPopulate /\ IsErr(last_res') /\ ~IsRateLimited(last_res'))
            => (pc' = "exit_err" /\ err' = last_res' /\ db' = db)
       /\ pc = "exit_err" => (pc' = "exit_err" /\ db' = db /\ requested' = requested)
       /\ pc' = "exit_err" =>
            \A i \in upserted' : i \in DOMAIN db' /\ db'[i] = RowOf(from_raw(RemoteMsg(i)))
      ]_vars

C4_Witness ==
    /\ pc = "exit_err" /\ err = StorageErr /\ upserted # {} /\ batches >= 1

\* C5: skip mode fetches and writes nothing; normal mode excludes exactly the
\* ids stored at the start, never requests or overwrites one of them, and
\* draws the non-stored ids in ascending order whatever it upserts meanwhile;
\* force mode excludes nothing, draws 1, 2, 3, ... and overwrites the stored
\* rows it fetches.
C5_ModeSelectsIds ==
    /\ skip_populate => (requested = {} /\ upserted = {} /\ batches = 0 /\ db = db0)
    /\ (~skip_populate /\ ~force_repopulate /\ batches >= 1) =>
          /\ existing_ids = DOMAIN db0
          /\ requested \cap DOMAIN db0 = {}
          /\ \A i \in DOMAIN db0 : db[i] = db0[i]
          /\ requested \cup Range(msg_ids) = {i \in 1..(curr - 1) : i \notin DOMAIN db0}
    /\ (~skip_populate /\ force_repopulate /\ batches >= 1) =>
          /\ existing_ids = {}
          /\ requested \cup Range(msg_ids) = 1..(curr - 1)
          /\ \A i \in upserted : db[i] = RowOf(from_raw(RemoteMsg(i)))
          /\ \A i \in (DOMAIN db0) \cap classified : i \in upserted \/ pc = "exit_err"

C5_Witness ==
    /\ ~skip_populate /\ force_repopulate /\ pc = "run"
    /\ \E i \in DOMAIN db0 : i \in upserted /\ db[i] # db0[i]

\* C9: no remote call of startup, backfill or live sync lets a RateLimited
\* failure through: the process never ends with one.
C9_RateLimitNeverSurfaces == ~IsRateLimited(err)

----------------------------------------------------------------------------
(* util.rs: invoke, run on its own against a scripted operation *)

IdleApp ==
    /\ pc = "idle" /\ skip_populate = FALSE /\ force_repopulate = FALSE
    /\ source = {} /\ db = <<>> /\ db0 = <<>> /\ existing_ids = {} /\ curr = 1
    /\ msg_ids = <<>> /\ idx = 0 /\ consecutive_empty_msg = 0 /\ added = 0
    /\ sleeping = <<>> /\ err = NoRes /\ last_res = NoRes /\ requested = {}
    /\ classified = {} /\ upserted = {} /\ batches = 0

\* the counters of the observer stop counting here
CallCap == MaxRL + 2

RLSeqs == UNION {[1..n -> RateLimitedSet] : n \in 0..MaxRL}
Finals == {OkRes(1), OkRes(2)} \cup OtherFailures

\* what the operation answers to its k-th invocation
ScriptAnswer(k) == IF k <= Len(script) THEN script[k] ELSE RpcErr(FLOOD_CODE, <<0>>)

\* `let res = f().await`
ICall ==
    /\ ipc = "call"
    /\ res' = ScriptAnswer(calls + 1)
    /\ calls' = Min(calls + 1, CallCap)
    /\ ipc' = "match"
    /\ UNCHANGED <<script, rl_forever, sleeps, ret, appVars, itVars, liveVars, opVars>>

\* `match res`: start the sleep, or return res
IMatch ==
    /\ ipc = "match"
    /\ LET m == InvokeMatch(res)
       IN  IF m.act = "sleep"
           THEN /\ sleeps' = IF Len(sleeps) < CallCap THEN Append(sleeps, m.secs) ELSE sleeps
                /\ ipc' = "sleep"
                /\ ret' = ret
           ELSE /\ ret' = res
                /\ ipc' = "returned"
                /\ sleeps' = sleeps
    /\ UNCHANGED <<script, rl_forever, calls, res, appVars, itVars, liveVars, opVars>>

\* the sleep has elapsed: next turn of the loop
IWake ==
    /\ ipc = "sleep"
    /\ ipc' = "call"
    /\ UNCHANGED <<script, rl_forever, calls, sleeps, res, ret, appVars, itVars, liveVars, opVars>>

NextInvoke ==
    \/ ICall
    \/ IMatch
    \/ IWake

InitInvoke ==
    /\ IdleApp /\ IdleIter /\ IdleLive /\ IdleStore
    /\ ipc = "call" /\ calls = 0 /\ sleeps = <<>> /\ res = NoRes /\ ret = NoRes
    /\ rl_forever \in BOOLEAN
    /\ \E rls \in RLSeqs :
         IF rl_forever THEN script = rls
         ELSE \E f \in Finals : script = Append(rls, f)

SpecInvoke == InitInvoke /\ [][NextInvoke]_vars

\* the operation answers and the sleep elapses
SpecInvokeFair == InitInvoke /\ [][NextInvoke]_vars /\ WF_vars(NextInvoke)

FinalAnswer == script[Len(script)]

\* C6: an operation that fails with RateLimited n times and then succeeds is
\* invoked n+1 times; invoke sleeps n times, once after each failure and
\* before the next invocation, for the advertised seconds (30 when none is
\* advertised), and returns the success value of the last invocation.
C6_RetryThenSuccess ==
    (~rl_forever /\ FinalAnswer.kind = "ok") =>
       /\ ipc \in {"call", "sleep"} => Len(sleeps) = calls
       /\ ipc = "match" => Len(sleeps) = calls - 1
       /\ \A k \in 1..Len(sleeps) :
             sleeps[k] = IF script[k].value = <<>> THEN 30 ELSE script[k].value[1]
       /\ ipc = "returned" =>
             /\ calls = Len(script)
             /\ Len(sleeps) = Len(script) - 1
             /\ ret = FinalAnswer

C6_Witness ==
    /\ ipc = "returned" /\ ret = OkRes(1) /\ calls = 3 /\ sleeps = <<0, 0>>

\* C7: a failure other than RateLimited is returned as it is in the very step
\* that matches it, without a sleep and without another invocation.
C7_OtherFailureReturned ==
    [][/\ (ipc = "match" /\ IsErr(res) /\ ~IsRateLimited(res))
            => (ipc' = "returned" /\ ret' = res /\ sleeps' = sleeps /\ calls' = calls)
       /\ (~rl_forever /\ IsErr(FinalAnswer) /\ ipc' = "returned")
            => (ret' = FinalAnswer /\ calls' = Len(script) /\ Len(sleeps') = Len(script) - 1)
      ]_vars

C7_Witness ==
    /\ ipc = "returned" /\ ret = RpcErr(500, <<7>>) /\ calls = 1 /\ sleeps = <<>>

\* C8: invoke never gives up while the operation answers RateLimited, and it
\* returns exactly when the operation at last answers something else.
C8_RetriesForever ==
    /\ rl_forever => [](ipc # "returned")
    /\ ~rl_forever => <>(ipc = "returned")

C8_Witness ==
    /\ rl_forever /\ calls = CallCap /\ Len(sleeps) = CallCap /\ ipc = "call"

----------------------------------------------------------------------------
(* util.rs: SkippingIter, run on its own over every snapshot within 1..MaxId *)

ItNext ==
    /\ Len(it_out) < MaxYield
    /\ LET nx == SkippingIterNext([curr |-> it_curr, inner |-> it_inner])
       IN  /\ it_out' = Append(it_out, nx.item)
           /\ it_curr' = nx.it.curr
    /\ UNCHANGED <<it_inner, appVars, invVars, liveVars, opVars>>

NextIter == ItNext

InitIter ==
    /\ IdleApp /\ IdleInvoke /\ IdleLive /\ IdleStore
    /\ it_inner \in SUBSET (1..MaxId)
    /\ it_curr = SkippingIterNew(it_inner).curr
    /\ it_out = <<>>

SpecIter == InitIter /\ [][NextIter]_vars

\* C10: the values yielded are positive, outside the snapshot and strictly
\* ascending, no positive integer outside the snapshot is passed over, and
\* another value is always to come; over {2,4,5,7} the first six values are
\* 1, 3, 6, 8, 9, 10.
C10_GapIterator ==
    LET n == Len(it_out)
    IN  /\ \A k \in 1..n : it_out[k] >= 1 /\ it_out[k] \notin it_inner
        /\ \A k \in 1..(n - 1) : it_out[k] < it_out[k + 1]
        /\ Range(it_out) = {v \in 1..(it_curr - 1) : v \notin it_inner}
        /\ n < MaxYield => ENABLED ItNext
        /\ (it_inner = {2, 4, 5, 7} /\ n >= 6) => SubSeq(it_out, 1, 6) = <<1, 3, 6, 8, 9, 10>>

C10_Witness ==
    /\ it_inner = {2, 4, 5, 7} /\ it_out = <<1, 3, 6, 8, 9, 10>>

----------------------------------------------------------------------------
(* db.rs: the table `message` on its own *)

MsgIds == {7, 999}
Texts == {"a", "Ab"}
Patterns == {"", "a", "b", "_"}

\* the characters of the strings of the model
Chars(str) ==
    CASE str = "" -> <<>>
      [] str = "a" -> <<"a">>
      [] str = "b" -> <<"b">>
      [] str = "_" -> <<"_">>
      [] str = "Ab" -> <<"A", "b">>
      [] str = "mk" -> <<"m", "k">>
      [] str = "old" -> <<"o", "l", "d">>

\* LIKE folds the case of ASCII letters
Lower(c) == IF c = "A" THEN "a" ELSE c

\* SQLite's LIKE: % matches any run of characters, _ any one character
RECURSIVE Like(_, _)
Like(p, t) ==
    IF p = <<>> THEN t = <<>>
    ELSE IF Head(p) = "%" THEN Like(Tail(p), t) \/ (t # <<>> /\ Like(p, Tail(t)))
    ELSE IF t = <<>> THEN FALSE
    ELSE IF Head(p) = "_" THEN Like(Tail(p), Tail(t))
    ELSE Lower(Head(p)) = Lower(Head(t)) /\ Like(Tail(p), Tail(t))

\* format!("%{reg}%")
LikePattern(reg) == <<"%">> \o Chars(reg) \o <<"%">>

\* the rows a SELECT .. ORDER BY RANDOM() LIMIT n may return out of the rows E
Picks(d, E, limit) ==
    LET n == Min(limit, Cardinality(E))
    IN  {[k \in 1..n |-> [id |-> sq[k], text |-> d[sq[k]].text[1]]] :
            sq \in {f \in [1..n -> E] : \A a, b \in 1..n : a # b => f[a] # f[b]}}

\* Database::random: the results it may return
random(d, limit) ==
    Picks(d, {i \in DOMAIN d : d[i].is_forwarded = TRUE /\ d[i].text # <<>>}, limit)

\* Database::search: the results it may return
search(d, reg, limit) ==
    Picks(d, {i \in DOMAIN d : /\ d[i].text # <<>>
                               /\ Like(LikePattern(reg), Chars(d[i].text[1]))
                               /\ d[i].is_forwarded = TRUE}, limit)

\* execute("DELETE FROM message WHERE id = ?1"): the table and the rows changed
DeleteRow(d, id) ==
    [db |-> [i \in (DOMAIN d) \ {id} |-> d[i]], n |-> IF id \in DOMAIN d THEN 1 ELSE 0]

\* a delete that reports the length of the list
delete_len(d, ids) ==
    [db |-> [i \in (DOMAIN d) \ Range(ids) |-> d[i]], num |-> Len(ids), stmts |-> Len(ids)]

\* Database::delete: the table, the count returned and the statements run
RECURSIVE delete(_, _)
delete(d, ids) ==
    IF ids = <<>> THEN [db |-> d, num |-> 0, stmts |-> 0]
    ELSE LET one == DeleteRow(d, Head(ids))
             rest == delete(one.db, Tail(ids))
         IN  [db |-> rest.db, num |-> one.n + rest.num, stmts |-> 1 + rest.stmts]

StoreRecords ==
    [id : MsgIds, text : {<<>>} \cup {<<t>> : t \in Texts}, is_forwarded : BOOLEAN,
     raw : {1, 2}]
IdLists == UNION {[1..n -> MsgIds] : n \in 0..MaxIdList}

StUpsert ==
    /\ \E rec \in StoreRecords :
         /\ db' = upsert_one(db, rec)
         /\ op' = [name |-> "upsert", args |-> rec, out |-> <<>>, stmts |-> 1,
                   pre |-> db]
    /\ UNCHANGED <<pc, skip_populate, force_repopulate, source, db0, popVars, sleeping,
                   err, last_res, obsVars, invVars, itVars, liveVars>>

StDelete ==
    /\ \E ids \in IdLists :
         LET r == delete(db, ids)
         IN  /\ db' = r.db
             /\ op' = [name |-> "delete", args |-> ids, out |-> r.num, stmts |-> r.stmts,
                       pre |-> db]
    /\ UNCHANGED <<pc, skip_populate, force_repopulate, source, db0, popVars, sleeping,
                   err, last_res, obsVars, invVars, itVars, liveVars>>

StRandom ==
    /\ \E limit \in 0..MaxLimit : \E out \in random(db, limit) :
         op' = [name |-> "random", args |-> [reg |-> "", limit |-> limit], out |-> out,
                stmts |-> 1, pre |-> <<>>]
    /\ UNCHANGED <<appVars, invVars, itVars, liveVars>>

StSearch ==
    /\ \E reg \in Patterns, limit \in 0..MaxLimit : \E out \in search(db, reg, limit) :
         op' = [name |-> "search", args |-> [reg |-> reg, limit |-> limit], out |-> out,
                stmts |-> 1, pre |-> <<>>]
    /\ UNCHANGED <<appVars, invVars, itVars, liveVars>>

NextStore ==
    \/ StUpsert
    \/ StDelete
    \/ StRandom
    \/ StSearch

InitStore == IdleApp /\ IdleInvoke /\ IdleIter /\ IdleLive /\ IdleStore

SpecStore == InitStore /\ [][NextStore]_vars

\* C11: right after upsert_one(r) the table holds one row per id, the row of
\* r.id is r in full (text, is_forwarded, raw) whatever was stored before,
\* every other row is as it was, and upserting r once more changes nothing.
C11_UpsertLastWriterWins ==
    op.name = "upsert" =>
       LET r == op.args
       IN  /\ DOMAIN db = (DOMAIN op.pre) \cup {r.id}
           /\ db[r.id] = RowOf(r)
           /\ \A i \in (DOMAIN op.pre) \ {r.id} : db[i] = op.pre[i]
           /\ upsert_one(db, r) = db

C11_Witness ==
    /\ op.name = "upsert" /\ op.args.id = 7 /\ DOMAIN op.pre = {7, 999}
    /\ op.pre[7].raw # db[7].raw /\ op.pre[7].text # db[7].text
    /\ op.pre[7].is_forwarded # db[7].is_forwarded

\* C12: delete(ids) returns the number of listed ids that were stored (an
\* absent or repeated id adds 0), leaves none of them stored and every other
\* row as it was; for the empty list it returns 0 and runs no statement.
C12_DeleteCount ==
    op.name = "delete" =>
       /\ op.out = Cardinality(Range(op.args) \cap DOMAIN op.pre)
       /\ DOMAIN db = (DOMAIN op.pre) \ Range(op.args)
       /\ \A i \in DOMAIN db : db[i] = op.pre[i]
       /\ op.args = <<>> => (op.out = 0 /\ op.stmts = 0)
       /\ (op.args = <<7, 999>> /\ DOMAIN op.pre = {7}) => op.out = 1

C12_Witness ==
    /\ op.name = "delete" /\ op.args = <<7, 999>> /\ DOMAIN op.pre = {7} /\ op.out = 1

\* the text t holds the characters r next to each other
Contains(t, r) == \E k \in 0..(Len(t) - Len(r)) : SubSeq(t, k + 1, k + Len(r)) = r

\* C15: random and search return at most limit results, each a stored row
\* with is_forwarded = true and a non-null text, which for search contains
\* the substring.
C15_ReadScope ==
    op.name \in {"random", "search"} =>
       /\ Len(op.out) <= op.args.limit
       /\ \A k \in 1..Len(op.out) :
             LET x == op.out[k]
             IN  /\ x.id \in DOMAIN db
                 /\ db[x.id].is_forwarded = TRUE
                 /\ db[x.id].text = <<x.text>>
                 /\ op.name = "search" => Contains(Chars(x.text), Chars(op.args.reg))

----------------------------------------------------------------------------
(* db.rs: the table `user` on its own *)

UserIds == {"A", "B", "C"}

\* a bump whose conflict branch stores 1 again
bump_reset(us, u) == [v \in (DOMAIN us) \cup {u} |-> IF v = u THEN 1 ELSE us[v]]

\* Database::bump_user_count: INSERT .. VALUES (?1, 1) ON CONFLICT DO UPDATE
\* SET count = count + 1
bump_user_count(us, u) ==
    [v \in (DOMAIN us) \cup {u} |->
        IF v # u THEN us[v] ELSE IF u \in DOMAIN us THEN us[u] + 1 ELSE 1]

\* Database::get_user_stats: the values it may return.  The query has no
\* GROUP BY, so all rows are one group: count(*) is the number of rows,
\* COUNT(count <= u.count) compares each row with itself and counts them all,
\* and the bare columns count and user_id (of HAVING) are read from a row of
\* SQLite's choosing; the empty group has a NULL user_id and is filtered.
get_user_stats(us, u) ==
    IF DOMAIN us = {} THEN {<<>>}
    ELSE {IF r = u
          THEN <<[user_id |-> u, count |-> us[r],
                  total_users |-> Cardinality(DOMAIN us),
                  lower_users |-> Cardinality({v \in DOMAIN us : us[v] <= us[v]})]>>
          ELSE <<>> : r \in DOMAIN us}

\* From<UserStat> for Article: the rank shown
Rank(stat) == stat.total_users - stat.lower_users + 1

CtBump ==
    /\ \E u \in UserIds :
         /\ u \in DOMAIN users => users[u] < MaxCount
         /\ users' = bump_user_count(users, u)
         /\ op' = [name |-> "bump_user_count", args |-> u, out |-> <<>>, stmts |-> 1,
                   pre |-> users]
    /\ UNCHANGED <<ready, parked, sig, signals, dequeued, quota, finished, chosen, sfail,
                   turn, forced>>
    /\ UNCHANGED <<appVars, invVars, itVars>>

CtStats ==
    /\ \E u \in UserIds : \E out \in get_user_stats(users, u) :
         op' = [name |-> "get_user_stats", args |-> u, out |-> out, stmts |-> 1,
                pre |-> users]
    /\ UNCHANGED <<appVars, invVars, itVars, liveVars>>

NextCounter ==
    \/ CtBump
    \/ CtStats

InitCounter == IdleApp /\ IdleInvoke /\ IdleIter /\ IdleLive /\ IdleStore

SpecCounter == InitCounter /\ [][NextCounter]_vars

\* C13: get_user_stats(u) is absent exactly when u has no counter row;
\* otherwise count is u's counter, total_users the number of counter rows and
\* lower_users the number of rows whose count is <= u's count (so for
\* {A:3, B:5, C:5} A gets count 3, total 3, lower 1, rank 3, and B lower 3,
\* rank 1).
C13_UserStats ==
    op.name = "get_user_stats" =>
       LET u == op.args
       IN  /\ op.out = <<>> <=> u \notin DOMAIN users
           /\ op.out # <<>> =>
                /\ op.out[1].count = users[u]
                /\ op.out[1].total_users = Cardinality(DOMAIN users)
                /\ op.out[1].lower_users =
                      Cardinality({v \in DOMAIN users : users[v] <= users[u]})
           /\ (users = [v \in UserIds |-> IF v = "A" THEN 3 ELSE 5] /\ op.out # <<>>) =>
                Rank(op.out[1]) = IF u = "A" THEN 3 ELSE 1

----------------------------------------------------------------------------
(* main.rs: App::run, the live loop *)

USER_STATS_ID == "stats"

\* an Update of the stream; the fields a variant lacks are empty
Upd(type, chat, ids, msg, sender, text, result_id) ==
    [type |-> type, chat |-> chat, ids |-> ids, msg |-> msg, sender |-> sender,
     text |-> text, result_id |-> result_id]

LiveMsg == [id |-> 7, text |-> "a", fwd |-> TRUE, raw |-> 2]

LiveUpdates ==
    {Upd("NewMessage", <<c>>, <<>>, <<LiveMsg>>, "", "", "") : c \in {"target", "other"}}
    \cup {Upd("MessageDeleted", c, <<7, 999>>, <<>>, "", "", "") :
             c \in {<<"target">>, <<"other">>, <<>>}}
    \cup {Upd("InlineQuery", <<>>, <<>>, <<>>, "A", t, "") : t \in {"", "a"}}
    \cup {Upd("InlineSend", <<>>, <<>>, <<>>, "A", "", i) : i \in {USER_STATS_ID, "7"}}
    \cup {Upd("InlineSend", <<>>, <<>>, <<>>, "B", "", "7")}
    \cup {Upd("Other", <<>>, <<>>, <<>>, "", "", "")}

\* the answers to query.answer(..).send(), which is awaited without invoke
ReplyAnswers == {OkRes(0), RpcErr(FLOOD_CODE, <<7>>), RpcErr(400, <<>>)}

\* the answers to next_update() besides an update
StreamFailures == {RpcErr(FLOOD_CODE, <<7>>), IoErr}

\* a filter that lets a delete without channel id through
OtherChannelSome(chat) == chat # <<>> /\ chat # <<"target">>

\* update.channel_id() != Some(self.chat.id()); msg.chat().id() != self.chat.id()
OtherChannel(chat) == chat # <<"target">>

\* a handler that awaits whatever update it is given
AwaitsAll(h) == h.st = "new"

\* handle_update reaches its only await, send().await, on an InlineQuery
Awaits(h) == h.st = "new" /\ h.upd.type = "InlineQuery"

\* One poll of the future handle_update(update).  f > 0 makes the f-th
\* storage statement of the handler fail.  done = FALSE: the handler is
\* Pending at send().await.
handle_update(h, d, us, f) ==
    LET u == h.upd
        Done(r, d2, us2) == [done |-> TRUE, res |-> r, db |-> d2, users |-> us2]
    IN  IF h.st = "woken" THEN Done(h.reply, d, us)
        ELSE IF Awaits(h)
        THEN IF f > 0 THEN Done(StorageErr, d, us)
             ELSE [done |-> FALSE, res |-> NoRes, db |-> d, users |-> us]
        ELSE CASE u.type = "MessageDeleted" ->
                    IF OtherChannel(u.chat) THEN Done(OkRes(0), d, us)
                    ELSE IF f > 0 /\ f <= Len(u.ids)
                         THEN Done(StorageErr, delete(d, SubSeq(u.ids, 1, f - 1)).db, us)
                         ELSE Done(OkRes(0), delete(d, u.ids).db, us)
               [] u.type = "InlineSend" ->
                    IF u.result_id = USER_STATS_ID THEN Done(OkRes(0), d, us)
                    ELSE IF f = 1 THEN Done(StorageErr, d, us)
                         ELSE Done(OkRes(0), d, bump_user_count(us, u.sender))
               [] u.type = "NewMessage" ->
                    IF OtherChannel(u.chat) THEN Done(OkRes(0), d, us)
                    ELSE IF f = 1 THEN Done(StorageErr, d, us)
                         ELSE Done(OkRes(0), upsert_one(d, from_raw(u.msg[1])), us)
               [] OTHER -> Done(OkRes(0), d, us)

\* FuturesUnordered::poll_next: the handlers of the ready queue are polled in
\* order until one completes (Some), the queue runs dry with handlers left
\* waiting (Pending) or the pool holds no handler at all (None).  The
\* handler at position j of the queue, counted from pos, fails with f if it
\* awaits; the one that completes fails with f.
RECURSIVE pool_next(_, _, _, _, _, _, _)
pool_next(rdy, prk, d, us, pos, j, f) ==
    IF rdy = <<>>
    THEN [res |-> IF prk = <<>> THEN "none" ELSE "pending", h |-> <<>>, out |-> NoRes,
          ready |-> <<>>, parked |-> prk, db |-> d, users |-> us]
    ELSE LET h == Head(rdy)
             r == handle_update(h, d, us, IF Awaits(h) /\ pos # j THEN 0 ELSE f)
         IN  IF r.done
             THEN [res |-> "some", h |-> <<h>>, out |-> r.res, ready |-> Tail(rdy),
                   parked |-> prk, db |-> r.db, users |-> r.users]
             ELSE pool_next(Tail(rdy), Append(prk, h), d, us, pos + 1, j, f)

\* a pool that polls the handler queued last first
PollsReversed ==
    {pool_next([k \in 1..Len(ready) |-> ready[Len(ready) + 1 - k]], parked, db, users,
               1, j, f) : j \in 0..Len(ready), f \in 0..2}

\* the polls of the pool that can happen in the current state
Polls == {pool_next(ready, parked, db, users, 1, j, f) : j \in 0..Len(ready), f \in 0..2}

\* a result branch written `result?`
RunResultPropagate(r) == IF IsErr(r) THEN "exit_err" ELSE "run"

\* run: `if let Some(Err(e)) = result { warn!(..) }`, then the loop goes on
RunResult(r) == "run"

\* a drain loop that breaks on the first handler that completes
DrainLeftBreak(r) == "exit_ok"

\* run: `Either::Left(_) => {}`, then the inner loop goes on
DrainLeft(r) == "drain"

\* a run() started while populate is still going
LoopStartedEarly(p) == p \in {"run", "draw", "fetch", "classify"}

\* main: run() is called on the value populated().await? returns
LoopStarted(p) == p = "run"

\* the events chosen so far, with one more by u
Tally(ch, u) ==
    [v \in (DOMAIN ch) \cup {u} |->
        (IF v \in DOMAIN ch THEN ch[v] ELSE 0) + (IF v = u THEN 1 ELSE 0)]

\* what a completed handler leaves in the observers
Completed(o, logged) ==
    /\ finished' = Append(finished, [n |-> o.h[1].n, upd |-> o.h[1].upd, res |-> o.out,
                                     logged |-> logged])
    /\ sfail' = (sfail \/ o.out = StorageErr)
    /\ chosen' = IF /\ o.h[1].upd.type = "InlineSend"
                    /\ o.h[1].upd.result_id # USER_STATS_ID
                 THEN Tally(chosen, o.h[1].upd.sender)
                 ELSE chosen

mainFixed == <<skip_populate, force_repopulate, source, db0, popVars, last_res, obsVars>>
liveFixed == <<mainFixed, turn, forced>>

\* select! branch 1: invoke(|| self.client.next_update()) answers
NextUpdate ==
    /\ LoopStarted(pc) /\ sleeping = <<>>
    /\ \/ /\ dequeued < quota
          /\ \E u \in LiveUpdates :
               ready' = Append(ready, [n |-> dequeued + 1, upd |-> u, st |-> "new",
                                       reply |-> NoRes])
          /\ dequeued' = dequeued + 1
          /\ UNCHANGED <<pc, sleeping, err>>
       \/ /\ \E r \in StreamFailures :
               LET m == InvokeMatch(r)
               IN  IF m.act = "sleep"
                   THEN sleeping' = <<m.secs>> /\ UNCHANGED <<pc, err>>
                   ELSE pc' = "exit_err" /\ err' = r /\ sleeping' = sleeping
          /\ UNCHANGED <<ready, dequeued>>
    /\ UNCHANGED <<db, users, parked, sig, signals, quota, finished, chosen, sfail>>
    /\ UNCHANGED <<liveFixed, invVars, itVars, opVars>>

\* select! branch 2: pool.next() is polled; on Some or None the branch is
\* taken and the other two futures, a sleeping invoke included, are dropped
PoolResult ==
    /\ LoopStarted(pc)
    /\ \E o \in Polls :
         /\ ready' = o.ready /\ parked' = o.parked /\ db' = o.db /\ users' = o.users
         /\ CASE o.res = "some" ->
                   /\ Completed(o, IsErr(o.out))
                   /\ pc' = RunResult(o.out)
                   /\ err' = IF pc' = "exit_err" THEN o.out ELSE err
                   /\ sleeping' = <<>>
              [] o.res = "none" ->
                   /\ sleeping' = <<>>
                   /\ UNCHANGED <<pc, err, finished, chosen, sfail>>
              [] OTHER -> UNCHANGED <<pc, err, sleeping, finished, chosen, sfail>>
    /\ UNCHANGED <<sig, signals, dequeued, quota>>
    /\ UNCHANGED <<liveFixed, invVars, itVars, opVars>>

\* select! branch 3: ctrl_c() completes, the inner loop is entered
CtrlC ==
    /\ LoopStarted(pc) /\ sig
    /\ pc' = "drain" /\ sig' = FALSE /\ sleeping' = <<>>
    /\ UNCHANGED <<db, err, users, ready, parked, signals, dequeued, quota, finished,
                   chosen, sfail>>
    /\ UNCHANGED <<liveFixed, invVars, itVars, opVars>>

\* inner loop: select(pool.next(), ctrl_c()) polls pool.next() first; Left
\* is taken on Some and on None alike, and its value is dropped
DrainPoolNext ==
    /\ pc = "drain"
    /\ \E o \in Polls :
         /\ ready' = o.ready /\ parked' = o.parked /\ db' = o.db /\ users' = o.users
         /\ IF o.res = "some"
            THEN Completed(o, FALSE) /\ pc' = DrainLeft(o.out)
            ELSE UNCHANGED <<pc, finished, chosen, sfail>>
         /\ turn' = IF o.res = "none" THEN 1 - turn ELSE turn
    /\ UNCHANGED <<sleeping, err, sig, signals, dequeued, quota>>
    /\ UNCHANGED <<mainFixed, forced, invVars, itVars, opVars>>

\* inner loop: pool.next() is Pending and ctrl_c() completes: Right, break
DrainCtrlC ==
    /\ pc = "drain" /\ sig
    /\ \E o \in Polls :
         /\ o.res = "pending"
         /\ ready' = o.ready /\ parked' = o.parked
    /\ pc' = "exit_ok" /\ sig' = FALSE
    /\ UNCHANGED <<db, sleeping, err, users, signals, dequeued, quota, finished, chosen,
                   sfail>>
    /\ UNCHANGED <<liveFixed, invVars, itVars, opVars>>

\* the loop is suspended in a select with a ctrl_c() future alive
Listening == ready = <<>> /\ parked # <<>>

\* SIGINT is sent.  A ctrl_c() future sees the signals sent after its first
\* poll only, and every turn of either loop makes a new one: a signal is
\* seen if the loop is suspended, may be missed while the outer loop is
\* turning, and is missed while the inner loop is turning.
Signal ==
    /\ pc \in {"run", "drain"} /\ signals < MaxSignals
    /\ signals' = signals + 1
    /\ \E seen \in BOOLEAN :
         /\ Listening => seen
         /\ (pc = "drain" /\ ~Listening) => ~seen
         /\ sig' = (sig \/ seen)
    /\ forced' = IF pc = "drain" THEN forced + 1 ELSE forced
    /\ UNCHANGED <<pc, db, sleeping, err, users, ready, parked, dequeued, quota,
                   finished, chosen, sfail>>
    /\ UNCHANGED <<mainFixed, turn, invVars, itVars, opVars>>

\* the answer to a send() arrives: its handler is woken and queued again
ReplyArrives ==
    /\ pc \in {"run", "drain"}
    /\ \E k \in 1..Len(parked), r \in ReplyAnswers :
         /\ parked' = SubSeq(parked, 1, k - 1) \o SubSeq(parked, k + 1, Len(parked))
         /\ ready' = Append(ready, [parked[k] EXCEPT !.st = "woken", !.reply = r])
    /\ UNCHANGED <<pc, db, sleeping, err, users, sig, signals, dequeued, quota,
                   finished, chosen, sfail>>
    /\ UNCHANGED <<liveFixed, invVars, itVars, opVars>>

NextLive ==
    \/ NextUpdate
    \/ PoolResult
    \/ CtrlC
    \/ DrainPoolNext
    \/ DrainCtrlC
    \/ Signal
    \/ ReplyArrives
    \/ Wake

\* run() is entered after a skipped populate, with an empty pool
InitLive ==
    /\ pc = "run" /\ skip_populate = TRUE /\ force_repopulate = FALSE
    /\ source = {} /\ db = [i \in {7} |-> StaleRow] /\ db0 = db
    /\ existing_ids = {} /\ curr = 1
    /\ msg_ids = <<>> /\ idx = 0 /\ consecutive_empty_msg = 0 /\ added = 0
    /\ sleeping = <<>> /\ err = NoRes /\ last_res = NoRes /\ requested = {}
    /\ classified = {} /\ upserted = {} /\ batches = 0
    /\ IdleInvoke /\ IdleIter /\ IdleStore
    /\ users = <<>> /\ ready = <<>> /\ parked = <<>> /\ sig = FALSE /\ signals = 0
    /\ dequeued = 0 /\ quota = MaxUpdates /\ finished = <<>> /\ chosen = <<>>
    /\ sfail = FALSE /\ turn = 0 /\ forced = 0

SpecLive == InitLive /\ [][NextLive]_vars

\* the steps of the loop itself, and the replies of the remote side, keep
\* happening; whether a signal is ever sent is left open
LoopStep ==
    \/ NextUpdate
    \/ PoolResult
    \/ CtrlC
    \/ DrainPoolNext
    \/ DrainCtrlC
    \/ Wake

SpecLiveFair ==
    InitLive /\ [][NextLive]_vars /\ WF_vars(LoopStep) /\ WF_vars(ReplyArrives)

\* main: init, load_chat, populated and run, one after the other
NextMain ==
    \/ NextApp
    \/ NextUpdate
    \/ PoolResult
    \/ CtrlC
    \/ DrainPoolNext
    \/ DrainCtrlC
    \/ Signal
    \/ ReplyArrives

InitMain ==
    /\ pc = "init" /\ skip_populate \in BOOLEAN /\ force_repopulate \in BOOLEAN
    /\ source \in {{}, 1..3} /\ db0 \in {<<>>, [i \in {1} |-> StaleRow]} /\ db = db0
    /\ existing_ids = {} /\ curr = 1
    /\ msg_ids = <<>> /\ idx = 0 /\ consecutive_empty_msg = 0 /\ added = 0
    /\ sleeping = <<>> /\ err = NoRes /\ last_res = NoRes /\ requested = {}
    /\ classified = {} /\ upserted = {} /\ batches = 0
    /\ IdleInvoke /\ IdleIter /\ IdleStore
    /\ users = <<>> /\ ready = <<>> /\ parked = <<>> /\ sig = FALSE /\ signals = 0
    /\ dequeued = 0 /\ quota = 1 /\ finished = <<>> /\ chosen = <<>>
    /\ sfail = FALSE /\ turn = 0 /\ forced = 0

SpecMain == InitMain /\ [][NextMain]_vars

----------------------------------------------------------------------------
(* Properties of the live loop *)

InFlight == Len(ready) + Len(parked)
LastDone == finished'[Len(finished')]
Completes == Len(finished') = Len(finished) + 1

\* C14: no counter row is ever deleted or decremented, a step changes at
\* most one counter, creating it at 1 or adding exactly 1, choosing the stats
\* entry changes no counter, and as long as no storage call has failed the
\* counter of each user is the number of handled inline-result-chosen events
\* of that user whose result is not the stats entry.
C14_EngagementCounter ==
    [][/\ \A u \in DOMAIN users : u \in DOMAIN users' /\ users'[u] >= users[u]
       /\ \A u \in DOMAIN users' :
             \/ users'[u] = (IF u \in DOMAIN users THEN users[u] ELSE 0)
             \/ /\ users'[u] = (IF u \in DOMAIN users THEN users[u] ELSE 0) + 1
                /\ \A v \in (DOMAIN users) \ {u} : users'[v] = users[v]
                /\ Completes /\ LastDone.upd.type = "InlineSend"
                /\ LastDone.upd.sender = u /\ LastDone.upd.result_id # USER_STATS_ID
       /\ ~sfail' => users' = chosen']_vars

C14_Witness ==
    /\ ~sfail /\ DOMAIN users = {"A"} /\ users["A"] = 2 /\ Len(finished) = 2

\* C16 as stated: at most one event handler is in flight at any time.
C16_OneAtATime == InFlight <= 1

\* C16, amended: every dequeued update has exactly one handler, in the pool
\* or completed, and updates are dequeued one per turn, also while earlier
\* handlers are still in the pool; a handler that has started and is not
\* finished is an inline-query handler awaiting its reply, and every write to
\* storage happens in the step that completes the handler making it.
C16_PooledHandling ==
    [][/\ dequeued' \in {dequeued, dequeued + 1}
       /\ Len(ready') + Len(parked') + Len(finished') = dequeued'
       /\ \A k \in 1..Len(parked') : parked'[k].upd.type = "InlineQuery"
       /\ \A k \in 1..Len(ready') :
             ready'[k].st = "new" \/ ready'[k].upd.type = "InlineQuery"
       /\ (db' # db \/ users' # users) =>
             /\ Completes
             /\ LastDone.upd.type \in {"NewMessage", "MessageDeleted", "InlineSend"}]_vars

C16_Witness ==
    /\ pc = "run" /\ Len(parked) = 1 /\ Len(finished) = 1
    /\ parked[1].n = 1 /\ finished[1].n = 2 /\ finished[1].upd.type = "NewMessage"
    /\ finished[1].res = OkRes(0)

\* C18: before shutdown, when a handler completes with a failure (of
\* storage or of the inline reply) the failure is logged, the handler is gone
\* from the pool for good, run() does not return and the loop is back at its
\* select with nothing pending, so the next update is dequeued as before.
C18_FailureIsolated ==
    [][(pc = "run" /\ Completes /\ IsErr(LastDone.res)) =>
          /\ pc' = "run" /\ err' = err /\ sleeping' = <<>>
          /\ LastDone.logged
          /\ \A k \in 1..Len(ready') : ready'[k].n # LastDone.n
          /\ \A k \in 1..Len(parked') : parked'[k].n # LastDone.n
          /\ \A k \in 1..Len(finished) : finished[k].n # LastDone.n
          /\ dequeued' = dequeued]_vars

C18_Witness ==
    /\ pc = "run" /\ Len(finished) = 2
    /\ finished[1].n = 1 /\ finished[1].res = StorageErr /\ finished[1].logged
    /\ finished[2].n = 2 /\ finished[2].res = OkRes(0)
    /\ finished[2].upd.type = "NewMessage" /\ 7 \in DOMAIN db /\ db[7].raw = 2

C20_ShutdownCompletes ==
    (pc = "drain" /\ InFlight = 0 /\ signals = 1) ~> (pc = "exit_ok" \/ signals = 2)

\* C17: no update is dequeued and no handler is queued, polled or completed
\* before run() is reached, run() is reached only when populate has returned
\* or was skipped, and populate upserts only before the first update is
\* dequeued.
C17_PhaseOrdering ==
    [][/\ (dequeued' # dequeued \/ ready' # ready \/ parked' # parked
             \/ finished' # finished \/ users' # users) => pc \in {"run", "drain"}
       /\ pc' \notin {"run", "drain", "exit_ok", "exit_err"} => dequeued' = 0
       /\ upserted' # upserted => (dequeued = 0 /\ InFlight = 0 /\ pc = "classify")
       /\ (pc # "run" /\ pc' = "run") =>
             \/ pc = "populate" /\ skip_populate
             \/ pc = "classify" /\ StopNow(consecutive_empty_msg)]_vars

C17_Witness ==
    /\ pc = "run" /\ upserted = 1..3 /\ Len(finished) = 1
    /\ finished[1].upd.type = "NewMessage" /\ finished[1].res = OkRes(0)
    /\ 7 \in DOMAIN db

\* C21: a signal sent while the inner loop is running makes the loop
\* terminate, whether or not handlers are still in flight.
C21_ForcedShutdown == (pc = "drain" /\ forced >= 1) ~> (pc = "exit_ok")

\* the update is for another chat than the target, or for none
Filtered(u) == u.type \in {"NewMessage", "MessageDeleted"} /\ u.chat # <<"target">>

\* C22: a new-message event of another chat, and a delete event of another
\* channel or of none, complete without error and leave the message table
\* and the counters as they were.
C22_ChannelFilter ==
    [][(Completes /\ Filtered(LastDone.upd)) =>
          (db' = db /\ users' = users /\ LastDone.res = OkRes(0))]_vars

C22_Witness ==
    /\ Len(finished) = 2 /\ db = db0 /\ 7 \in DOMAIN db
    /\ finished[1].upd.type = "MessageDeleted" /\ finished[1].upd.chat = <<>>
    /\ finished[1].upd.ids = <<7, 999>> /\ finished[1].res = OkRes(0)
    /\ finished[2].upd.type = "NewMessage" /\ finished[2].upd.chat = <<"other">>
    /\ finished[2].res = OkRes(0)

\* C23: every failure a handler has returned was logged, whenever the
\* handler completed.
C23_EveryFailureLogged ==
    \A k \in 1..Len(finished) : IsErr(finished[k].res) => finished[k].logged

\* the update writes the row of id i when it is handled
WritesRow(u, i) ==
    /\ u.chat = <<"target">>
    /\ \/ u.type = "NewMessage" /\ u.msg[1].id = i
       \/ u.type = "MessageDeleted" /\ i \in Range(u.ids)

\* C25: with no storage failure, once every new-message and delete event of
\* the target that names id i has been handled, the row of i is what the
\* last of them in stream order makes it: the message if that is a new
\* message, absent if it is a delete.
C25_StreamOrder ==
    \A i \in MsgIds :
       LET W == {k \in 1..Len(finished) : WritesRow(finished[k].upd, i)}
       IN  (/\ ~sfail /\ W # {}
            /\ \A k \in 1..Len(ready) : ~WritesRow(ready[k].upd, i)) =>
               LET l == CHOOSE k \in W : \A m \in W : finished[m].n <= finished[k].n
               IN  IF finished[l].upd.type = "NewMessage"
                   THEN i \in DOMAIN db /\ db[i] = RowOf(from_raw(finished[l].upd.msg[1]))
                   ELSE i \notin DOMAIN db

C25_Witness ==
    /\ ~sfail /\ Len(finished) = 2 /\ ready = <<>> /\ 7 \notin DOMAIN db
    /\ finished[1].n = 1 /\ finished[1].upd.type = "NewMessage"
    /\ finished[1].upd.chat = <<"target">>
    /\ finished[2].n = 2 /\ finished[2].upd.type = "MessageDeleted"
    /\ finished[2].upd.chat = <<"target">>

----------------------------------------------------------------------------
(* Properties of the batches of backfill *)

\* C24: a batch is the next 100 ids outside the exclusion set, ascending,
\* starting where the batch before it ended, so every candidate is drawn
\* once and none is skipped; only drawing a batch moves the iterator or
\* changes the batch, so a rate-limited fetch is repeated with the same ids;
\* results are classified in the order of the ids, and
\* consecutive_empty_msg is left alone by drawing and fetching.
C24_BatchDrawing ==
    [][/\ batches' # batches =>
             /\ batches' = batches + 1 /\ pc = "draw"
             /\ Len(msg_ids') = BATCH_SIZE
             /\ \A k \in 1..(BATCH_SIZE - 1) : msg_ids'[k] < msg_ids'[k + 1]
             /\ curr = IF batches = 0 THEN 1 ELSE msg_ids[Len(msg_ids)] + 1
             /\ curr' = msg_ids'[BATCH_SIZE] + 1
             /\ \A i \in curr..msg_ids'[BATCH_SIZE] :
                   (i \in Range(msg_ids')) <=> (i \notin existing_ids)
             /\ consecutive_empty_msg' = consecutive_empty_msg
       /\ batches' = batches => (msg_ids' = msg_ids /\ curr' = curr)
       /\ pc = "fetch" =>
             /\ consecutive_empty_msg' = consecutive_empty_msg
             /\ sleeping' # sleeping => (pc' = "fetch" /\ existing_ids' = existing_ids)
             /\ pc' = "classify" => (idx' = 1 /\ Range(msg_ids) \subseteq requested')
       /\ classified' # classified =>
             /\ pc = "classify" /\ idx \in 1..Len(msg_ids)
             /\ classified' = classified \cup {msg_ids[idx]}
             /\ \A i \in classified : i < msg_ids[idx]
             /\ pc' # "exit_err" => idx' = idx + 1]_vars

C24_Witness ==
    /\ batches = 2 /\ pc = "fetch" /\ sleeping # <<>> /\ last_res \in RateLimitedSet
    /\ consecutive_empty_msg > 0 /\ msg_ids[1] = BATCH_SIZE + 1
    /\ Range(msg_ids) \subseteq requested

====
